---------------------------- MODULE Spec2Model ----------------------------
(***************************************************************************)
(* A model of pypeit/spectrographs/magellan_mage.py: the class             *)
(* MagellanMAGESpectrograph.                                               *)
(*                                                                         *)
(* The class body binds bpm, slitmask, slit2order and order_platescale     *)
(* twice.  Python keeps the last binding of a name in a class body, so the *)
(* methods an instance has are the second definitions; the first ones are  *)
(* kept here under the suffix _first.                                      *)
(*                                                                         *)
(* Python values: None is the empty tuple, Some(x) a present optional      *)
(* value, a str is a sequence of one-character strings, a float is        *)
(* [finite |-> TRUE, tenths |-> 10*f] (one decimal digit) or, for nan and  *)
(* the infinities, [finite |-> FALSE, ...]; a call's outcome is a record   *)
(* [kind |-> "ok", val |-> v] or [kind |-> "error", val |-> exception].    *)
(***************************************************************************)
EXTENDS Integers, Sequences, FiniteSets, TLC

VARIABLES
    heap,       \* the arrays allocated so far; a reference is an index
    bpm_img,    \* self.bpm_img: None or Some(reference)
    calls,      \* the bpm calls made so far, with what each returned
    meta,       \* self.meta: None until init_meta has run
    call,       \* the last call: its name and arguments
    ret         \* the outcome of the last call

vars == <<heap, bpm_img, calls, meta, call, ret>>

None == <<>>
Some(x) == <<x>>
Ok(v) == [kind |-> "ok", val |-> v]
Raise(e) == [kind |-> "error", val |-> e]
NoCall == [op |-> "none"]

\* a 0-based Python list or 1-d array held as a TLA+ sequence
At(s, i) == s[i + 1]

Max(a, b) == IF a >= b THEN a ELSE b

---------------------------------------------------------------------------
(* __init__ *)

norders == 15

\* detector 1: datasec '[1:2048,1:1024]'
DetRows == 1024
DetCols == 2048

---------------------------------------------------------------------------
(* bpm.  A mask is [shape |-> <<nrows, ncols>>, ones |-> C]: the 2-d array *)
(* of that shape whose pixel (r, c) is 1 when c is in C and 0 otherwise.   *)
(* bpm only ever writes whole columns (the slices [:, :20], [:, 1000:]),   *)
(* so every mask it can build has this form.                               *)

zeros(shape) == [shape |-> shape, ones |-> {}]
pixel(m, r, c) == IF c \in m.ones THEN 1 ELSE 0

\* m[:, lo:hi] = 1, with Python's clipping of slice bounds
set_columns(m, lo, hi) ==
    [m EXCEPT !.ones = @ \cup {c \in 0..(m.shape[2] - 1) : lo <= c /\ c < hi}]

\* Spectrograph.empty_bpm(shape, filename=None, det): binds self.bpm_img to
\* a new all-zero array of the requested shape; without a shape or a file
\* there is nothing to size the mask from.
empty_bpm(self, shape, det) ==
    IF shape = None
    THEN [heap |-> self.heap, bpm_img |-> self.bpm_img, raised |-> TRUE]
    ELSE [heap |-> Append(self.heap, zeros(shape)),
          bpm_img |-> Some(Len(self.heap) + 1),
          raised |-> FALSE]

\* the first definition of bpm (shadowed)
bpm_first(self, shape, det) ==
    LET s == empty_bpm(self, shape, det) IN
    IF s.raised
    THEN [heap |-> s.heap, bpm_img |-> s.bpm_img, ret |-> Raise("PypeItError")]
    ELSE LET ref == s.bpm_img[1]
             m0 == s.heap[ref]
             m1 == set_columns(m0, 0, 20)
             m2 == set_columns(m1, 1000, m0.shape[2])
         IN [heap |-> IF det = Some(1) THEN [s.heap EXCEPT ![ref] = m2]
                      ELSE s.heap,
             bpm_img |-> s.bpm_img,
             ret |-> Ok(ref)]

\* a bpm that keeps the buffer of the previous call when there is one
bpm_cached(self, shape, det) ==
    IF self.bpm_img # None
    THEN [heap |-> self.heap, bpm_img |-> self.bpm_img,
          ret |-> Ok(self.bpm_img[1])]
    ELSE LET s == empty_bpm(self, shape, det) IN
         IF s.raised
         THEN [heap |-> s.heap, bpm_img |-> s.bpm_img,
               ret |-> Raise("PypeItError")]
         ELSE [heap |-> s.heap, bpm_img |-> s.bpm_img,
               ret |-> Ok(s.bpm_img[1])]

\* the second definition of bpm: the one the class has
bpm(self, shape, det) ==
    LET s == empty_bpm(self, shape, det) IN
    IF s.raised
    THEN [heap |-> s.heap, bpm_img |-> s.bpm_img, ret |-> Raise("PypeItError")]
    ELSE [heap |-> s.heap, bpm_img |-> s.bpm_img, ret |-> Ok(s.bpm_img[1])]

MaxCalls == 3

BpmShapes == {None, <<DetRows, DetCols>>, <<2, 30>>, <<3, DetCols>>}
BpmDets == {None, Some(1), Some(2)}

Bpm ==
    /\ Len(calls) < MaxCalls
    /\ \E shape \in BpmShapes, det \in BpmDets :
         LET r == bpm([heap |-> heap, bpm_img |-> bpm_img], shape, det) IN
         /\ heap' = r.heap
         /\ bpm_img' = r.bpm_img
         /\ call' = [op |-> "bpm", shape |-> shape, det |-> det]
         /\ ret' = r.ret
         /\ calls' = Append(calls,
                [shape |-> shape, det |-> det, ret |-> r.ret,
                 mask |-> IF r.ret.kind = "ok" THEN r.heap[r.ret.val]
                          ELSE None])
    /\ UNCHANGED meta

Init ==
    /\ heap = <<>>
    /\ bpm_img = None
    /\ calls = <<>>
    /\ meta = None
    /\ call = NoCall
    /\ ret = Ok(None)

NextBpm == Bpm
SpecBpm == Init /\ [][NextBpm]_vars

\* C1: bpm called with det = 1 and shape (1024, 2048) returns a mask that is
\* 1 exactly on columns 0..19 and on columns 1000 and above, on every row,
\* and 0 on every other pixel.
C1_BpmDet1Mask ==
    \A i \in 1..Len(calls) :
        (calls[i].shape = <<DetRows, DetCols>> /\ calls[i].det = Some(1)) =>
            /\ calls[i].ret.kind = "ok"
            /\ calls[i].mask.shape = <<DetRows, DetCols>>
            /\ \A c \in 0..(DetCols - 1) :
                 pixel(calls[i].mask, 0, c) =
                     (IF c < 20 \/ c >= 1000 THEN 1 ELSE 0)

\* C8: every bpm call builds its mask fresh: the mask a call returns has the
\* requested shape and is the same for every call with the same shape and
\* det, whatever calls came before; no two calls return the same array, and
\* the array an earlier call returned still holds what it held when it was
\* returned.
C8_BpmFresh ==
    \A i \in 1..Len(calls) :
        calls[i].ret.kind = "ok" =>
            /\ calls[i].mask.shape = calls[i].shape
            /\ heap[calls[i].ret.val] = calls[i].mask
            /\ \A j \in 1..Len(calls) :
                 /\ (calls[j].shape = calls[i].shape
                       /\ calls[j].det = calls[i].det) =>
                        /\ calls[j].ret.kind = "ok"
                        /\ calls[j].mask = calls[i].mask
                 /\ (j # i /\ calls[j].ret.kind = "ok") =>
                        calls[j].ret.val # calls[i].ret.val

\* three calls, the first and third with the same shape and det and another
\* shape in between
C8_Witness ==
    /\ Len(calls) >= 3
    /\ \A i \in 1..3 : calls[i].ret.kind = "ok"
    /\ calls[1].shape = calls[3].shape
    /\ calls[1].det = calls[3].det
    /\ calls[2].shape # calls[1].shape
    /\ calls[2].det # calls[1].det

---------------------------------------------------------------------------
(* Python and numpy primitives used by slit2order *)

Digits == {"0", "1", "2", "3", "4", "5", "6", "7", "8", "9"}

DigitVal(c) ==
    CASE c = "0" -> 0 [] c = "1" -> 1 [] c = "2" -> 2 [] c = "3" -> 3
      [] c = "4" -> 4 [] c = "5" -> 5 [] c = "6" -> 6 [] c = "7" -> 7
      [] c = "8" -> 8 [] c = "9" -> 9

RECURSIVE DigitsVal(_)
DigitsVal(s) ==
    IF s = <<>> THEN 0
    ELSE 10 * DigitsVal(SubSeq(s, 1, Len(s) - 1)) + DigitVal(s[Len(s)])

\* int(s) for a str s: an optional sign, then one or more decimal digits
int_of_str(s) ==
    LET signed == s # <<>> /\ s[1] \in {"-", "+"}
        body == IF signed THEN Tail(s) ELSE s
    IN IF body = <<>> \/ \E i \in 1..Len(body) : body[i] \notin Digits
       THEN Raise("ValueError")
       ELSE Ok(IF signed /\ s[1] = "-" THEN 0 - DigitsVal(body)
               ELSE DigitsVal(body))

DigitChar(d) ==
    CASE d = 0 -> "0" [] d = 1 -> "1" [] d = 2 -> "2" [] d = 3 -> "3"
      [] d = 4 -> "4" [] d = 5 -> "5" [] d = 6 -> "6" [] d = 7 -> "7"
      [] d = 8 -> "8" [] d = 9 -> "9"

RECURSIVE NatStr(_)
NatStr(n) ==
    IF n < 10 THEN <<DigitChar(n)>>
    ELSE Append(NatStr(n \div 10), DigitChar(n % 10))

\* str(n) and '{0}'.format(n) for an int n
str_of_int(n) == IF n < 0 THEN <<"-">> \o NatStr(0 - n) ELSE NatStr(n)

\* int(f) for a float f: the fraction is dropped (rounding toward zero); nan
\* and the infinities have no integer value
int_of_float(f) ==
    IF ~f.finite THEN Raise("ValueError")
    ELSE Ok(IF f.tenths >= 0 THEN f.tenths \div 10
            ELSE 0 - ((0 - f.tenths) \div 10))

\* a.astype(int) for an array a
astype_int(a) ==
    IF a.dtype = "float"
    THEN [i \in 1..Len(a.elems) |->
             int_of_float([finite |-> TRUE, tenths |-> a.elems[i]]).val]
    ELSE a.elems

\* np.arange(start, stop, step, dtype=int) with step < 0
arange(start, stop, step) ==
    LET n == Max(0, (start - stop + (0 - step) - 1) \div (0 - step))
    IN [i \in 1..n |-> start + (i - 1) * step]

in_bounds(a, i) == 0 - Len(a) <= i /\ i < Len(a)

\* a[i] for an integer i: a negative i counts from the end
getitem(a, i) ==
    IF ~in_bounds(a, i) THEN Raise("IndexError")
    ELSE Ok(IF i < 0 THEN At(a, i + Len(a)) ELSE At(a, i))

\* a[idx] for an integer array idx: the array of the a[idx[k]]
take(a, idx) ==
    IF \E k \in 1..Len(idx) : ~in_bounds(a, idx[k]) THEN Raise("IndexError")
    ELSE Ok([k \in 1..Len(idx) |-> getitem(a, idx[k]).val])

\* msgs.error(message): reports the message and ends the call
msgs_error(message) == Raise("PypeItError")

---------------------------------------------------------------------------
(* slit2order *)

orders_first == arange(7, 2, -1)
orders == arange(26, 10, -1)

\* a slit2order whose table lookup follows the conversion of a float with no
\* branch for it
slit2order_nofloat(islit) ==
    CASE islit.type = "str" ->
            LET c == int_of_str(islit.val) IN
            IF c.kind = "error" THEN c ELSE getitem(orders, c.val)
      [] islit.type = "ndarray" -> take(orders, astype_int(islit.val))
      [] islit.type = "int" -> getitem(orders, islit.val)
      [] OTHER -> msgs_error("Unrecognized type for islit")

\* the second definition of slit2order: the one the class has
slit2order(islit) ==
    CASE islit.type = "str" ->
            LET c == int_of_str(islit.val) IN
            IF c.kind = "error" THEN c ELSE getitem(orders, c.val)
      [] islit.type = "ndarray" -> take(orders, astype_int(islit.val))
      [] islit.type = "float" ->
            LET c == int_of_float(islit.val) IN
            IF c.kind = "error" THEN c ELSE getitem(orders, c.val)
      [] islit.type = "int" -> getitem(orders, islit.val)
      [] OTHER -> msgs_error("Unrecognized type for islit")

MaxLabel == 17
MaxStrLen == 2
MaxArrLen == 2

StrChars == {"-", "1", "5", "7", "x"}
Strs(n) == UNION {[1..k -> StrChars] : k \in 0..n}
FloatTenths == {-170, -165, -10, -4, 0, 5, 149, 150, 159, 160, 161}
ArrInts == {-17, -1, 0, 14, 16}
ArrTenths == {-4, 9, 155}

IntIslits == {[type |-> "int", val |-> i] : i \in (0 - MaxLabel)..MaxLabel}
StrIslits == {[type |-> "str", val |-> s] : s \in Strs(MaxStrLen)}
FloatIslits ==
    {[type |-> "float", val |-> [finite |-> TRUE, tenths |-> t]] :
        t \in FloatTenths}
    \cup {[type |-> "float", val |-> [finite |-> FALSE, tenths |-> 0]]}
ArrayIslits ==
    {[type |-> "ndarray", val |-> [dtype |-> "int", elems |-> e]] :
        e \in UNION {[1..k -> ArrInts] : k \in 0..MaxArrLen}}
    \cup {[type |-> "ndarray", val |-> [dtype |-> "float", elems |-> e]] :
        e \in UNION {[1..k -> ArrTenths] : k \in 1..MaxArrLen}}
OtherIslits == {[type |-> t, val |-> None] : t \in {"NoneType", "list", "dict"}}

Slit2orderCall(islit) ==
    /\ call = NoCall
    /\ call' = [op |-> "slit2order", islit |-> islit]
    /\ ret' = slit2order(islit)
    /\ UNCHANGED <<heap, bpm_img, calls, meta>>

Slit2order ==
    \/ \E islit \in IntIslits : Slit2orderCall(islit)
    \/ \E islit \in StrIslits : Slit2orderCall(islit)
    \/ \E islit \in FloatIslits : Slit2orderCall(islit)
    \/ \E islit \in ArrayIslits : Slit2orderCall(islit)
    \/ \E islit \in OtherIslits : Slit2orderCall(islit)

SameOutcome(a, b) == a.kind = b.kind /\ a.val = b.val

\* C2: the table slit2order looks labels up in is a bijection over the
\* declared label range: a label of 0 or more has an order number exactly
\* when it is one of 0..norders-1, and the norders labels have pairwise
\* distinct order numbers.
C2_TableBijection ==
    /\ \A a, b \in 0..(norders - 1) : a # b => At(orders, a) # At(orders, b)
    /\ (call.op = "slit2order" /\ call.islit.type = "int"
          /\ call.islit.val >= 0) =>
           (ret.kind = "ok" <=> call.islit.val \in 0..(norders - 1))

\* C5: slit2order validates the index before the lookup: a negative index
\* or one at or beyond the length of the order table ends in an error.
C5_IndexValidated ==
    (call.op = "slit2order" /\ call.islit.type = "int"
       /\ (call.islit.val < 0 \/ call.islit.val >= Len(orders))) =>
        ret.kind = "error"

\* f/10 rounded toward zero is n
IsTruncation(n, tenths) ==
    IF tenths >= 0 THEN 10 * n <= tenths /\ tenths < 10 * n + 10
    ELSE 10 * n >= tenths /\ tenths > 10 * n - 10

ConvRange == (0 - 2 * MaxLabel)..(2 * MaxLabel)

\* C9: slit2order given an index of a type it cannot convert (anything but
\* int, float, str, ndarray) reports an error and returns no order number;
\* given an int, a float, the decimal string of an integer or an integer
\* array it returns the table entry of the integer the index converts to
\* (for an array, of every element).
C9_TypeDispatch ==
    call.op = "slit2order" =>
        LET t == call.islit.type
            v == call.islit.val
        IN /\ t \notin {"int", "float", "str", "ndarray"} =>
                 (ret.kind = "error" /\ ret.val = "PypeItError")
           /\ t = "int" => SameOutcome(ret, getitem(orders, v))
           /\ (t = "float" /\ v.finite) =>
                 \E n \in ConvRange :
                     /\ IsTruncation(n, v.tenths)
                     /\ SameOutcome(ret, getitem(orders, n))
           /\ t = "str" =>
                 \A n \in ConvRange :
                     v = str_of_int(n) => SameOutcome(ret, getitem(orders, n))
           /\ (t = "ndarray" /\ v.dtype = "int") =>
                 IF \A k \in 1..Len(v.elems) : in_bounds(orders, v.elems[k])
                 THEN /\ ret.kind = "ok"
                      /\ Len(ret.val) = Len(v.elems)
                      /\ \A k \in 1..Len(v.elems) :
                           ret.val[k] = getitem(orders, v.elems[k]).val
                 ELSE ret.kind = "error"

\* an unconvertible index was refused, or a float, a string or an array was
\* converted and found in the table
C9_Witness ==
    /\ call.op = "slit2order"
    /\ \/ call.islit.type = "list" /\ ret.kind = "error"
       \/ /\ call.islit.type = "float" /\ call.islit.val.finite
          /\ call.islit.val.tenths = 159 /\ ret.kind = "ok" /\ ret.val = 11
       \/ /\ call.islit.type = "str" /\ call.islit.val = <<"1", "5">>
          /\ ret.kind = "ok" /\ ret.val = 11

---------------------------------------------------------------------------
(* order_platescale.  A plate scale is held in units of 0.001 arcsec.      *)

full(n, v) == [i \in 1..n |-> v]

\* the first definition (shadowed): def order_platescale(binning=None)
order_platescale_first(args, kwargs) ==
    IF Len(args) + Cardinality(kwargs \cap {"binning"}) > 1
         \/ kwargs \ {"binning"} # {}
    THEN Raise("TypeError")
    ELSE Ok(full(5, 150))

\* the second definition, the one the class has: a static method declared
\* def order_platescale(self, binning=None), so the first positional
\* argument of a call is bound to the parameter self.  args are the
\* positional arguments and kwargs the names of the keyword arguments.
order_platescale(args, kwargs) ==
    IF \/ Len(args) > 2
       \/ kwargs \ {"self", "binning"} # {}
       \/ (Len(args) >= 1 /\ "self" \in kwargs)
       \/ (Len(args) >= 2 /\ "binning" \in kwargs)
       \/ (Len(args) = 0 /\ "self" \notin kwargs)
    THEN Raise("TypeError")
    ELSE Ok(full(16, 197))

Binnings == {None, <<"1", ",", "1">>, <<"2", ",", "2">>}

OrderPlatescale ==
    /\ call = NoCall
    /\ \E n \in 0..3, kwargs \in SUBSET {"self", "binning"} :
       \E args \in [1..n -> Binnings] :
         /\ call' = [op |-> "order_platescale", args |-> args,
                     kwargs |-> kwargs]
         /\ ret' = order_platescale(args, kwargs)
    /\ UNCHANGED <<heap, bpm_img, calls, meta>>

\* C3: the array order_platescale returns has as many entries as the
\* instrument declares orders, whatever the binning argument.
C3_PlatescaleLength ==
    (call.op = "order_platescale" /\ ret.kind = "ok") =>
        Len(ret.val) = norders

---------------------------------------------------------------------------
(* check_frame_type *)

\* framematch.check_frame_exptime(exptime, exprng): per row, whether the
\* exposure time lies in the range; both bounds belong to the range and a
\* bound of None leaves that side open.  exprng is None or <<lo, hi>>.
check_frame_exptime(exptime, exprng) ==
    [i \in 1..Len(exptime) |->
        IF exprng = None THEN TRUE
        ELSE /\ (exprng[1] # None => exptime[i] >= exprng[1][1])
             /\ (exprng[2] # None => exptime[i] <= exprng[2][1])]

column(fitstbl, name) == [i \in 1..Len(fitstbl) |-> fitstbl[i][name]]

\* a check_frame_type that has lost its test of the exposure time
check_frame_type_noexptime(ftype, fitstbl, exprng) ==
    IF ftype \in {"pinhole", "bias"}
    THEN [i \in 1..Len(fitstbl) |-> FALSE]
    ELSE IF ftype \in {"pixelflat", "trace"}
    THEN [i \in 1..Len(fitstbl) |-> fitstbl[i].idname = "domeflat"]
    ELSE [i \in 1..Len(fitstbl) |-> fitstbl[i].idname = "object"]

\* a check_frame_type that types bias frames by the general rule
check_frame_type_nobias(ftype, fitstbl, exprng) ==
    IF ftype \in {"pinhole"}
    THEN [i \in 1..Len(fitstbl) |-> FALSE]
    ELSE IF ftype \in {"pixelflat", "trace"}
    THEN [i \in 1..Len(fitstbl) |-> fitstbl[i].idname = "domeflat"]
    ELSE [i \in 1..Len(fitstbl) |->
             /\ fitstbl[i].idname = "object"
             /\ check_frame_exptime(column(fitstbl, "exptime"), exprng)[i]]

\* a check_frame_type that also holds the flats to the exposure-time range
check_frame_type_flatexptime(ftype, fitstbl, exprng) ==
    IF ftype \in {"pinhole", "bias"}
    THEN [i \in 1..Len(fitstbl) |-> FALSE]
    ELSE IF ftype \in {"pixelflat", "trace"}
    THEN [i \in 1..Len(fitstbl) |->
             /\ fitstbl[i].idname = "domeflat"
             /\ check_frame_exptime(column(fitstbl, "exptime"), exprng)[i]]
    ELSE [i \in 1..Len(fitstbl) |->
             /\ fitstbl[i].idname = "object"
             /\ check_frame_exptime(column(fitstbl, "exptime"), exprng)[i]]

check_frame_type(ftype, fitstbl, exprng) ==
    IF ftype \in {"pinhole", "bias"}
    THEN [i \in 1..Len(fitstbl) |-> FALSE]
    ELSE IF ftype \in {"pixelflat", "trace"}
    THEN [i \in 1..Len(fitstbl) |-> fitstbl[i].idname = "domeflat"]
    ELSE [i \in 1..Len(fitstbl) |->
             /\ fitstbl[i].idname = "object"
             /\ check_frame_exptime(column(fitstbl, "exptime"), exprng)[i]]

\* default_pypeit_par: the exprng of the standard frames and of the arc,
\* dark and science frames
exprng_standard == <<None, Some(20)>>
exprng_science == <<Some(20), None>>

MaxRows == 2

FrameTypes == {"pinhole", "bias", "pixelflat", "trace", "arc", "dark",
               "standard", "science"}
IdNames == {"object", "domeflat", "arc"}
ExpTimes == {15, 20, 25}
ExpRanges == {None, exprng_standard, exprng_science, <<None, None>>,
              <<Some(15), Some(20)>>}
FitsRows == [idname : IdNames, exptime : ExpTimes]
FitsTables == UNION {[1..n -> FitsRows] : n \in 0..MaxRows}

CheckFrameType ==
    /\ call = NoCall
    /\ \E ftype \in FrameTypes, fitstbl \in FitsTables, exprng \in ExpRanges :
         /\ call' = [op |-> "check_frame_type", ftype |-> ftype,
                     fitstbl |-> fitstbl, exprng |-> exprng]
         /\ ret' = Ok(check_frame_type(ftype, fitstbl, exprng))
    /\ UNCHANGED <<heap, bpm_img, calls, meta>>

UsesExprng(ftype) == ftype \notin {"pinhole", "bias", "pixelflat", "trace"}

InExprng(t, exprng) ==
    \/ exprng = None
    \/ /\ (exprng[1] = None \/ exprng[1][1] <= t)
       /\ (exprng[2] = None \/ t <= exprng[2][1])

\* C6: for a frame type other than pinhole, bias, pixelflat and trace,
\* check_frame_type selects a row only if its exptime lies in exprng, the
\* bounds included and a None bound open; with exprng = [20, None] a row
\* with exptime 15 is not selected, whatever its idname.
C6_ExprngFilter ==
    (call.op = "check_frame_type" /\ UsesExprng(call.ftype)) =>
        /\ Len(ret.val) = Len(call.fitstbl)
        /\ \A i \in 1..Len(call.fitstbl) :
             /\ ret.val[i] => InExprng(call.fitstbl[i].exptime, call.exprng)
             /\ (call.exprng = <<Some(20), None>>
                   /\ call.fitstbl[i].exptime = 15) => ~ret.val[i]

\* with exprng = [20, None]: an object row of exptime 15 left out beside an
\* object row of exptime 20, the bound itself, selected
C6_Witness ==
    /\ call.op = "check_frame_type"
    /\ call.ftype = "science"
    /\ call.exprng = <<Some(20), None>>
    /\ Len(call.fitstbl) = 2
    /\ call.fitstbl[1] = [idname |-> "object", exptime |-> 15]
    /\ call.fitstbl[2] = [idname |-> "object", exptime |-> 20]
    /\ ~ret.val[1]
    /\ ret.val[2]

\* C7: check_frame_type with ftype pinhole or bias returns a mask as long
\* as the frame table with every entry false, whatever the rows and exprng.
C7_NoPinholeBias ==
    (call.op = "check_frame_type" /\ call.ftype \in {"pinhole", "bias"}) =>
        /\ Len(ret.val) = Len(call.fitstbl)
        /\ \A i \in 1..Len(call.fitstbl) : ~ret.val[i]

\* a bias request over a table with an object row whose exptime is in range
C7_Witness ==
    /\ call.op = "check_frame_type"
    /\ call.ftype = "bias"
    /\ call.exprng = <<Some(20), None>>
    /\ Len(call.fitstbl) = 2
    /\ call.fitstbl[1] = [idname |-> "object", exptime |-> 25]
    /\ ret.val = <<FALSE, FALSE>>

\* C11: check_frame_type with ftype pixelflat or trace selects exactly the
\* rows whose idname is 'domeflat', whatever their exptime, and a call that
\* differs only in exprng returns the same mask.
C11_FlatsByIdname ==
    (call.op = "check_frame_type" /\ call.ftype \in {"pixelflat", "trace"}) =>
        /\ Len(ret.val) = Len(call.fitstbl)
        /\ \A i \in 1..Len(call.fitstbl) :
             ret.val[i] <=> call.fitstbl[i].idname = "domeflat"
        /\ \A exprng \in ExpRanges :
             check_frame_type(call.ftype, call.fitstbl, exprng) = ret.val

\* a trace request with exprng = [20, None]: a domeflat row of exptime 15,
\* outside the range, is selected and an object row of exptime 25 is not
C11_Witness ==
    /\ call.op = "check_frame_type"
    /\ call.ftype = "trace"
    /\ call.exprng = <<Some(20), None>>
    /\ Len(call.fitstbl) = 2
    /\ call.fitstbl[1] = [idname |-> "domeflat", exptime |-> 15]
    /\ call.fitstbl[2] = [idname |-> "object", exptime |-> 25]
    /\ ret.val = <<TRUE, FALSE>>

---------------------------------------------------------------------------
(* init_meta and compound_meta.  A dict with string keys is a record; a    *)
(* card name is Some(name), or None for card=None.                         *)

init_meta ==
    [ra |-> [ext |-> 0, card |-> Some("RA")],
     dec |-> [ext |-> 0, card |-> Some("DEC")],
     target |-> [ext |-> 0, card |-> Some("OBJECT")],
     decker |-> [ext |-> 0, card |-> Some("SLITENC")],
     binning |-> [card |-> None, compound |-> TRUE],
     mjd |-> [ext |-> 0, card |-> Some("MJD-OBS")],
     exptime |-> [ext |-> 0, card |-> Some("EXPTIME")],
     airmass |-> [ext |-> 0, card |-> Some("AIRMASS")],
     dispname |-> [ext |-> 0, card |-> Some("INSTR")]]

InitMeta ==
    /\ call = NoCall
    /\ meta' = Some(init_meta)
    /\ call' = [op |-> "init_meta"]
    /\ ret' = Ok(None)
    /\ UNCHANGED <<heap, bpm_img, calls>>

\* s.split(sep) for a one-character sep
RECURSIVE split(_, _)
split(s, sep) ==
    IF \A i \in 1..Len(s) : s[i] # sep THEN <<s>>
    ELSE LET k == CHOOSE i \in 1..Len(s) :
                      s[i] = sep /\ \A j \in 1..(i - 1) : s[j] # sep
         IN <<SubSeq(s, 1, k - 1)>> \o split(SubSeq(s, k + 1, Len(s)), sep)

contains(s, c) == \E i \in 1..Len(s) : s[i] = c

\* parse.parse_binning(binning): the two integers of a binning string
\* written 'a,b' or 'axb', in the order they are written
parse_binning(binning) ==
    LET parts == IF contains(binning, ",") THEN split(binning, ",")
                 ELSE IF contains(binning, "x") THEN split(binning, "x")
                 ELSE <<binning>>
    IN IF Len(parts) # 2 THEN Raise("ValueError")
       ELSE LET p1 == int_of_str(parts[1])
                p2 == int_of_str(parts[2])
            IN IF p1.kind = "error" \/ p2.kind = "error"
               THEN Raise("ValueError")
               ELSE Ok(<<p1.val, p2.val>>)

\* parse.binning2string(a, b): the combined binning string 'a,b'
binning2string(a, b) == str_of_int(a) \o <<",">> \o str_of_int(b)

\* a compound_meta that hands the two values on in the order it got them
compound_meta_unswapped(headarr, meta_key) ==
    IF meta_key # "binning" THEN [kind |-> "ok", val |-> None, reads |-> {}]
    ELSE IF Len(headarr) = 0
    THEN [kind |-> "error", val |-> "IndexError", reads |-> {}]
    ELSE IF "BINNING" \notin DOMAIN At(headarr, 0)
    THEN [kind |-> "error", val |-> "KeyError", reads |-> {<<0, "BINNING">>}]
    ELSE LET p == parse_binning(At(headarr, 0)["BINNING"]) IN
         IF p.kind = "error"
         THEN [kind |-> "error", val |-> p.val, reads |-> {<<0, "BINNING">>}]
         ELSE [kind |-> "ok", val |-> binning2string(p.val[1], p.val[2]),
               reads |-> {<<0, "BINNING">>}]

\* compound_meta(headarr, meta_key); reads is the set of the header cards,
\* <<extension, card>>, the call subscripts headarr with
compound_meta(headarr, meta_key) ==
    IF meta_key # "binning" THEN [kind |-> "ok", val |-> None, reads |-> {}]
    ELSE IF Len(headarr) = 0
    THEN [kind |-> "error", val |-> "IndexError", reads |-> {}]
    ELSE IF "BINNING" \notin DOMAIN At(headarr, 0)
    THEN [kind |-> "error", val |-> "KeyError", reads |-> {<<0, "BINNING">>}]
    ELSE LET p == parse_binning(At(headarr, 0)["BINNING"]) IN
         IF p.kind = "error"
         THEN [kind |-> "error", val |-> p.val, reads |-> {<<0, "BINNING">>}]
         ELSE LET binspatial == p.val[1]
                  binspec == p.val[2]
              IN [kind |-> "ok", val |-> binning2string(binspec, binspatial),
                  reads |-> {<<0, "BINNING">>}]

MaxBin == 2
MaxExt == 2

BinVals == 1..MaxBin
BinningCards ==
    {str_of_int(a) \o <<sep>> \o str_of_int(b) :
        a \in BinVals, b \in BinVals, sep \in {",", "x"}}
    \cup {<<"2">>, <<"1", ",", "x">>}
Headers ==
    {[BINNING |-> b, EXPTIME |-> <<"2", "0">>] : b \in BinningCards}
    \cup {[EXPTIME |-> <<"2", "0">>]}
HeadArrs == UNION {[1..n -> Headers] : n \in 0..MaxExt}
MetaKeys == {"binning", "ra", "exptime"}

CompoundMeta ==
    /\ call = NoCall
    /\ \E headarr \in HeadArrs, meta_key \in MetaKeys :
         /\ call' = [op |-> "compound_meta", headarr |-> headarr,
                     meta_key |-> meta_key]
         /\ ret' = compound_meta(headarr, meta_key)
    /\ UNCHANGED <<heap, bpm_img, calls, meta>>

\* among the keys init_meta declares, binning alone is compound and every
\* other key is a lookup of one card of extension 0
OnlyBinningCompound ==
    meta # None =>
        \A k \in DOMAIN meta[1] :
            IF k = "binning"
            THEN /\ "compound" \in DOMAIN meta[1][k]
                 /\ meta[1][k].compound
                 /\ meta[1][k].card = None
            ELSE /\ DOMAIN meta[1][k] = {"ext", "card"}
                 /\ meta[1][k].ext = 0
                 /\ meta[1][k].card # None

BinningLookup ==
    call.op = "compound_meta" /\ call.meta_key = "binning" /\ ret.kind = "ok"

Return ==
    /\ call # NoCall
    /\ call' = NoCall
    /\ ret' = Ok(None)
    /\ UNCHANGED <<heap, bpm_img, calls, meta>>

Next ==
    \/ Slit2order
    \/ OrderPlatescale
    \/ CheckFrameType
    \/ InitMeta
    \/ CompoundMeta
    \/ Return
Spec == Init /\ [][Next]_vars

---------------------------------------------------------------------------
(* slitmask.  An image is a function of the spectral row r in 0..nspec-1   *)
(* giving a function of the spatial column c in 0..nspat-1; lcen and rcen  *)
(* give, per row, the sequence of the slits' left and right edges.         *)

\* pixels.slit_pixels(lcen, rcen, nspat, pad): -1 everywhere, then for each
\* slit in turn its index on the pixels strictly between its left edge less
\* the pad and its right edge plus the pad
RECURSIVE slit_pixels_loop(_, _, _, _, _)
slit_pixels_loop(img, islit, lcen, rcen, pad) ==
    IF islit = Len(lcen[0]) THEN img
    ELSE slit_pixels_loop(
             [r \in DOMAIN img |-> [c \in DOMAIN img[r] |->
                 IF c > At(lcen[r], islit) - pad /\ c < At(rcen[r], islit) + pad
                 THEN islit ELSE img[r][c]]],
             islit + 1, lcen, rcen, pad)

slit_pixels(lcen, rcen, nspat, pad) ==
    slit_pixels_loop([r \in DOMAIN lcen |-> [c \in 0..(nspat - 1) |-> -1]],
                     0, lcen, rcen, pad)

order_max == <<1476, 1513, 1551, 1592, 1687, 1741, 1801, 1864, 1935, 2007,
               2025, 2025, 2025, 2025, 2025, 2025>>
order_min == <<418, 385, 362, 334, 303, 268, 230, 187, 140, 85,
               26, 0, 0, 0, 0, 0>>

\* for islit in range(nslits): slitmask[orderbad] = -1; spec_img[r, c] = r
RECURSIVE clip_orders(_, _, _)
clip_orders(img, islit, nslits) ==
    IF islit = nslits THEN Ok(img)
    ELSE IF islit >= Len(order_min) THEN Raise("IndexError")
    ELSE clip_orders(
             [r \in DOMAIN img |-> [c \in DOMAIN img[r] |->
                 IF img[r][c] = islit
                      /\ (r < At(order_min, islit) \/ r > At(order_max, islit))
                 THEN -1 ELSE img[r][c]]],
             islit + 1, nslits)

\* the first definition of slitmask (shadowed), which a slitmask that kept
\* it would follow: label 0 is cleared on the rows below nspec/2
slitmask_first(tslits_dict, pad, binning) ==
    LET pad1 == IF pad = None THEN tslits_dict.pad ELSE pad[1]
        img == slit_pixels(tslits_dict.lcen, tslits_dict.rcen,
                           tslits_dict.nspat, pad1)
    IN Ok([r \in DOMAIN img |-> [c \in DOMAIN img[r] |->
              IF img[r][c] = 0 /\ 2 * r < tslits_dict.nspec
              THEN -1 ELSE img[r][c]]])

\* the second definition of slitmask: the one the class has
slitmask(tslits_dict, pad, binning) ==
    LET pad1 == IF pad = None THEN tslits_dict.pad ELSE pad[1]
        img == slit_pixels(tslits_dict.lcen, tslits_dict.rcen,
                           tslits_dict.nspat, pad1)
        nslits == Len(tslits_dict.lcen[0])
    IN clip_orders(img, 0, nslits)

MaxSlits == 17
SmallSpec == 28

\* slits two columns apart, each one column wide between its edges, the
\* edges shifted by one column on odd rows when tilted
traced(nspec, nslits, tilt) ==
    LET left == [r \in 0..(nspec - 1) |->
                    [k \in 1..nslits |-> 2 * (k - 1) - 1 + tilt * (r % 2)]]
    IN [lcen |-> left,
        rcen |-> [r \in 0..(nspec - 1) |-> [k \in 1..nslits |-> left[r][k] + 2]],
        nspat |-> 2 * nslits + 1,
        nspec |-> nspec,
        pad |-> 0]

TslitsDicts ==
    {traced(SmallSpec, n, t) : n \in 1..MaxSlits, t \in {0, 1}}
    \cup {traced(DetCols, 12, 0)}

Slitmask ==
    /\ call = NoCall
    /\ \E tslits_dict \in TslitsDicts, pad \in {None, Some(0), Some(1)} :
         /\ call' = [op |-> "slitmask", tslits_dict |-> tslits_dict,
                     pad |-> pad]
         /\ ret' = slitmask(tslits_dict, pad, None)
    /\ UNCHANGED <<heap, bpm_img, calls, meta>>

NextSlitmask == Slitmask \/ Return
SpecSlitmask == Init /\ [][NextSlitmask]_vars

\* C4: every pixel of the image slitmask returns carries a label in
\* {-1, 0, ..., nslits-1}, and no pixel whose row lies outside
\* [order_min[k], order_max[k]] carries the label k.
C4_LabelsClipped ==
    (call.op = "slitmask" /\ ret.kind = "ok") =>
        \A r \in DOMAIN ret.val : \A c \in DOMAIN ret.val[r] :
            LET k == ret.val[r][c] IN
            /\ k \in (-1)..(Len(call.tslits_dict.lcen[0]) - 1)
            /\ k # -1 => (At(order_min, k) <= r /\ r <= At(order_max, k))

\* twelve slits traced over 2048 rows: column 0, inside slit 0, is cleared
\* on row 417 and on row 1477 and keeps label 0 on rows 418 and 1476, and
\* column 22, inside slit 11, keeps label 11 on row 0
C4_Witness ==
    /\ call.op = "slitmask"
    /\ call.pad = None
    /\ call.tslits_dict.nspec = DetCols
    /\ Len(call.tslits_dict.lcen[0]) = 12
    /\ ret.kind = "ok"
    /\ ret.val[417][0] = -1
    /\ ret.val[418][0] = 0
    /\ ret.val[1476][0] = 0
    /\ ret.val[1477][0] = -1
    /\ ret.val[0][22] = 11

=============================================================================
